---- MODULE Spec2Model ----
(***************************************************************************)
(* EDEN cognitive layer ("Ego Engine"): the personality vector, the        *)
(* self-modulating knowledge graph, the memory store and the event and     *)
(* interaction pipelines of cognitive_layer/ego_core.py, with the          *)
(* analyzer of cognitive_layer/llm_analyzer.py and the reset of            *)
(* cognitive_layer/scenario_manager.py.                                    *)
(*                                                                         *)
(* Numbers.  Trait values and thresholds are kept in tenths (0.5 is 5),    *)
(* scores in hundredths, importances in units of 1/Scale, so that every    *)
(* product the code forms is exact.  Edge weights are exact fractions      *)
(* [n, d] in lowest terms.  The arithmetic is that of the decimal values:  *)
(* the rounding of binary floating point (0.9 - 0.1 - 0.1 being            *)
(* 0.7000000000000001) is not reproduced.                                  *)
(***************************************************************************)
EXTENDS Integers, Sequences, FiniteSets, TLC

\* ------------------------------------------------------------------ bounds
\* Number of top-level operations (requests) in a run.
MaxOps == 3
\* Longest batch handed to process_event_batch.
MaxBatch == 2
\* Requests the brain server handles concurrently.
MaxRequests == 2
\* WebSocket clients of the brain server.
MaxSockets == 2

\* ------------------------------------------------------------- arithmetic
\* 1.0 on the importance scale.
Scale == 100000

\* The element of a one-element set: Only({F(x) : x \in {e}}) is F(e) with
\* e evaluated once.
Only(S) == CHOOSE x \in S : TRUE

Min(a, b) == IF a < b THEN a ELSE b
Max(a, b) == IF a > b THEN a ELSE b

RECURSIVE GCD(_, _)
GCD(a, b) == IF b = 0 THEN a ELSE GCD(b, a % b)

\* The fraction n/d in lowest terms (d > 0, n >= 0).
Rat(n, d) == LET g == GCD(n, d) IN [n |-> n \div g, d |-> d \div g]
RatMul(r, n, d) == Rat(r.n * n, r.d * d)

\* ------------------------------------------------------------ personality
Traits == {"Openness", "Conscientiousness", "Extroversion", "Agreeableness",
           "Neuroticism"}
\* The other attributes of a PersonalityVector instance: its methods.
Methods == {"to_dict", "update_trait"}

\* PersonalityVector(): every trait 0.5.
PersonalityVector == [t \in Traits |-> 5]

hasattr(trait) == trait \in Traits \cup Methods

\* update_trait without the clamp.
update_trait_unclamped(w, trait, value) ==
    IF ~hasattr(trait) THEN w
    ELSE IF trait \in Traits THEN [w EXCEPT !.personality[trait] = value]
    ELSE [w EXCEPT !.shadowed = @ \cup {trait}]

\* PersonalityVector.update_trait: setattr(self, trait, clamp(value)) for
\* every name hasattr accepts.  Setting a method name stores the number as
\* an instance attribute that shadows the method.
update_trait(w, trait, value) ==
    IF ~hasattr(trait) THEN w
    ELSE IF trait \in Traits
         THEN [w EXCEPT !.personality[trait] = Max(0, Min(10, value))]
         ELSE [w EXCEPT !.shadowed = @ \cup {trait}]

\* ------------------------------------------------------------------ graph
NoAttr == -1
None == "None"

NodeId(kind, num, name) == [kind |-> kind, num |-> num, name |-> name]
SELF == NodeId("SELF", 0, "")
\* f"USER_{memory.user_context}"
USER_(ctx) == NodeId("USER_", 0, ctx)
\* str(uuid.uuid4()): the n-th identifier drawn.
uuid4(n) == NodeId("uuid", n, "")

EmptyFn == [x \in {} |-> 0]

Node(type, importance, ctx, userid) ==
    [node_type |-> type, importance |-> importance, user_context |-> ctx,
     user_id |-> userid]

MemoryNode(id, importance, ctx, type) ==
    [id |-> id, importance |-> importance, user_context |-> ctx,
     node_type |-> type]

has_node(w, id) == id \in DOMAIN w.nodes
\* graph.add_node of a new node: the graph keeps its nodes in the order
\* they were added, pos being the node's place in that order.
AddNode(nodes, id, n) ==
    (id :> [node_type |-> n.node_type, importance |-> n.importance,
            user_context |-> n.user_context, user_id |-> n.user_id,
            pos |-> Cardinality(DOMAIN nodes)]) @@ nodes
AddEdge(edges, s, t, weight, type) ==
    (<<s, t>> :> [weight |-> weight, edge_type |-> type]) @@ edges

IsMemoryId(id) == id.kind = "uuid"
MemoryIds(nodes) == {id \in DOMAIN nodes : IsMemoryId(id)}

\* EgoGraph._reweight_edges: the base weight is the weight the edge
\* currently carries.
reweight_edges(w) ==
    [e \in DOMAIN w.edges |->
        IF e[1] = SELF \/ e[2] = SELF
        THEN LET base == w.edges[e].weight
                 ty == w.nodes[e[2]].node_type
             IN  IF ty = "threat"
                 THEN [w.edges[e] EXCEPT
                         !.weight = RatMul(base, 10 + w.personality["Neuroticism"], 10)]
                 ELSE IF ty = "joy"
                 THEN [w.edges[e] EXCEPT
                         !.weight = RatMul(base, 10 + w.personality["Agreeableness"], 10)]
                 ELSE [w.edges[e] EXCEPT !.weight = base]
        ELSE w.edges[e]]

\* MemoryEngine.store_memory: the record goes to the global collection when
\* user_context is None and to the user collection otherwise.
store_memory(store, memory) ==
    store \cup {[id |-> memory.id,
                 collection |-> IF memory.user_context = None
                                THEN "global_memories" ELSE "user_memories",
                 importance |-> memory.importance,
                 user_context |-> memory.user_context,
                 node_type |-> memory.node_type]}

\* MemoryEngine.retrieve_relevant_memories: the length of the list it
\* returns.  With a user_context the user collection is queried for the
\* top_k records of that user; the global collection is always queried
\* for top_k; a collection holding fewer gives what it holds.
retrieve_relevant_memories(store, user_context, top_k) ==
    LET user == IF user_context # None
                THEN {r \in store : r.collection = "user_memories"
                                      /\ r.user_context = user_context}
                ELSE {}
        global == {r \in store : r.collection = "global_memories"}
    IN  Min(top_k, Cardinality(user)) + Min(top_k, Cardinality(global))

\* The graph part of add_memory_node (lines 297-325).
add_to_graph(w, memory, thresholdMet) ==
    LET n1 == AddNode(w.nodes, memory.id,
                      Node(memory.node_type, memory.importance,
                           memory.user_context, None))
        e1 == IF thresholdMet
              THEN AddEdge(w.edges, SELF, memory.id,
                           Rat(memory.importance, Scale), "global_memory")
              ELSE w.edges
        u  == USER_(memory.user_context)
        n2 == IF memory.user_context # None /\ u \notin DOMAIN n1
              THEN AddNode(n1, u, Node("user", NoAttr, None, memory.user_context))
              ELSE n1
        e2 == IF memory.user_context # None /\ u \notin DOMAIN n1
              THEN AddEdge(e1, SELF, u, Rat(5, 10), "user_link")
              ELSE e1
        e3 == IF memory.user_context # None
              THEN AddEdge(e2, u, memory.id,
                           Rat(memory.importance, Scale), "user_memory")
              ELSE e2
    IN  [w EXCEPT !.nodes = n2, !.edges = e3]

\* add_memory_node with the Hive Mind rule at >= 0.9.
add_memory_node_ge(w, memory, storeOk) ==
    IF ~storeOk THEN [w |-> w, raised |-> TRUE]
    ELSE [w |-> add_to_graph([w EXCEPT !.store = store_memory(w.store, memory)],
                             memory, memory.importance * 10 >= 9 * Scale),
          raised |-> FALSE]

\* add_memory_node that writes the graph before the store.
add_memory_node_graph_first(w, memory, storeOk) ==
    LET g == add_to_graph(w, memory, memory.importance * 10 > 9 * Scale)
    IN  IF ~storeOk THEN [w |-> g, raised |-> TRUE]
        ELSE [w |-> [g EXCEPT !.store = store_memory(w.store, memory)],
              raised |-> FALSE]

\* EgoGraph.add_memory_node.  storeOk: whether the embedding and the
\* collection.add of the store succeed; a failure raises before the graph
\* is touched.
add_memory_node(w, memory, storeOk) ==
    IF ~storeOk THEN [w |-> w, raised |-> TRUE]
    ELSE [w |-> add_to_graph([w EXCEPT !.store = store_memory(w.store, memory)],
                             memory, memory.importance * 10 > 9 * Scale),
          raised |-> FALSE]

\* ------------------------------------------------------------ event frames
\* A description is the set of keywords and phrases it is made of;
\* `kw in description` is substring containment.
SubstringPairs ==
    {<<"finished", "finished building">>, <<"kind", "kind of">>,
     <<"important", "very important">>, <<"important", "not important">>}
Contains(description, kw) ==
    \E tok \in description : tok = kw \/ <<kw, tok>> \in SubstringPairs

\* What event_data can be: a mapping whose fields are present or not and
\* of the expected type or not, or something that is no mapping at all.
EventData(frame, isMapping, descKind, description, user_id, user_name, actions) ==
    [frame_id |-> frame, isMapping |-> isMapping, descKind |-> descKind,
     description |-> description, user_id |-> user_id, user_name |-> user_name,
     detected_actions |-> actions]

\* test_event_processing.py, event1.
EvAchievement ==
    EventData("test_001", TRUE, "str",
              {"just", "finished building", "significant", "achievement"},
              None, "Ian", {"completed", "finished"})
\* A low-salience description.
EvRoutine ==
    EventData("test_002", TRUE, "str", {"cool", "routine", "just", "casual"},
              None, None, {"check"})
EvThreat ==
    EventData("test_003", TRUE, "str", {"threat", "aggressive"},
              "Bob", None, {})
\* A mapping with no description key.
EvNoDescription == EventData("test_004", TRUE, "missing", {}, None, None, {})
\* A mapping whose description is a number.
EvWrongType == EventData("test_005", TRUE, "int", {}, None, None, {})
\* An entry that is no mapping (None, a string, a list).
EvNotMapping == EventData("unknown", FALSE, "missing", {}, None, None, {})


\* EventFrame.from_dict: every absent key gets its default, the description
\* the empty string.  (Called on a mapping.)
from_dict(data) ==
    [frame_id |-> data.frame_id,
     descIsStr |-> data.descKind # "int",
     description |-> IF data.descKind = "str" THEN data.description ELSE {},
     user_id |-> data.user_id, user_name |-> data.user_name,
     detected_actions |-> data.detected_actions]

\* `a or b` on optional strings.
Or(a, b) == IF a # None THEN a ELSE b

high_importance_keywords ==
    {"finished", "completed", "achievement", "important", "significant",
     "milestone", "breakthrough", "accomplished", "success", "final",
     "done", "created", "built", "finished building"}
low_importance_keywords ==
    {"cool", "nice", "casual", "routine", "normal", "typical", "just",
     "maybe", "might", "probably", "sort of", "kind of"}
completion_actions == {"completed", "finished", "achieved", "accomplished"}

\* _heuristic_importance_score without the completion-verb floor.
heuristic_importance_score_no_floor(event) ==
    LET high_count == Cardinality({kw \in high_importance_keywords :
                                      Contains(event.description, kw)})
        low_count  == Cardinality({kw \in low_importance_keywords :
                                      Contains(event.description, kw)})
        i1 == IF high_count > 0 THEN Min(9, 5 + high_count) ELSE 5
    IN  IF low_count > 0 THEN Max(2, i1 - low_count) ELSE i1

\* EgoGraph._heuristic_importance_score, in tenths.
heuristic_importance_score(event) ==
    LET high_count == Cardinality({kw \in high_importance_keywords :
                                      Contains(event.description, kw)})
        low_count  == Cardinality({kw \in low_importance_keywords :
                                      Contains(event.description, kw)})
        i1 == IF high_count > 0 THEN Min(9, 5 + high_count) ELSE 5
        i2 == IF low_count > 0 THEN Max(2, i1 - low_count) ELSE i1
    IN  IF event.detected_actions \cap completion_actions # {}
        THEN Max(i2, 7) ELSE i2

\* The candidates of _semantic_importance_score (lines 1026-1041): the
\* nodes with importance > 0.7 in the order of the graph, cut to the first
\* five.
important_memories(w) ==
    LET important == {id \in DOMAIN w.nodes :
                         w.nodes[id].importance * 10 > 7 * Scale}
    IN  {id \in important :
            Cardinality({j \in important : w.nodes[j].pos < w.nodes[id].pos}) < 5}

\* EgoGraph._semantic_importance_score, in hundredths.  The cosine
\* similarities to the candidates come from the embedder: sem is the value
\* min(0.95, 0.5 + 0.5 * max weighted similarity) they produce.
semantic_importance_score(w, sem) ==
    IF important_memories(w) = {} THEN 50 ELSE sem

\* cognitive_layer/config.py THRESHOLDS, in tenths.
THRESHOLDS ==
    [trauma |-> 3, threat |-> 3, joy |-> 6, achievement |-> 5,
     interaction |-> 5, memory |-> 5, routine |-> 7, casual |-> 8,
     default |-> 5]
ThresholdOf(type) ==
    IF type \in DOMAIN THRESHOLDS THEN THRESHOLDS[type] ELSE THRESHOLDS["default"]

MEMORY_DENSITY_THRESHOLD == 100

\* cognitive_layer/config.py PERSONALITY_MODULATION, in tenths.
PERSONALITY_MODULATION ==
    [Openness |-> [novel_events |-> 3],
     Conscientiousness |-> [achievement_events |-> 4],
     Extroversion |-> [social_events |-> 3],
     Agreeableness |-> [positive_social |-> 4, negative_social |-> -2],
     Neuroticism |-> [threat_events |-> 5, positive_events |-> -1]]

\* CognitiveAnalyzer._fallback_analysis: importance in hundredths and the
\* node type, from the description's keywords.
fallback_analysis(event) ==
    LET d == event.description
        hi == \E kw \in {"finished", "completed", "achievement", "important",
                         "significant", "milestone", "breakthrough",
                         "accomplished", "success"} : Contains(d, kw)
        lo == \E kw \in {"cool", "nice", "casual", "routine", "normal",
                         "typical", "just"} : Contains(d, kw)
    IN  [importance |-> IF lo THEN 30 ELSE IF hi THEN 80 ELSE 50,
         node_type |->
            IF \E kw \in {"threat", "danger", "aggressive"} : Contains(d, kw)
            THEN "threat"
            ELSE IF \E kw \in {"happy", "joy", "positive"} : Contains(d, kw)
            THEN "joy"
            ELSE IF \E kw \in {"finished", "completed"} : Contains(d, kw)
            THEN "achievement"
            ELSE "memory"]

\* cognitive_layer/config.py LLM_MAX_RETRIES.
LLM_MAX_RETRIES == 3

\* The value analyze_event_importance returns, with the number of generate
\* requests it issued and where the value came from ("llm": the
\* collaborator's JSON, "text": _parse_text_response, "fallback":
\* _fallback_analysis).
Analysis(importance, node_type, requests, source) ==
    [importance |-> importance, node_type |-> node_type,
     requests |-> requests, source |-> source]
\* No analysis was run.
NoAnalysis == Analysis(0, None, 0, None)

\* CognitiveAnalyzer._parse_text_response: importance in hundredths and
\* the node type, from the words of a reply that holds no JSON object.
parse_text_response(text) ==
    [importance |->
        IF \E kw \in {"very important", "critical", "significant"} :
               Contains(text, kw) THEN 80
        ELSE IF Contains(text, "important") THEN 60
        ELSE IF \E kw \in {"not important", "trivial", "routine"} :
               Contains(text, kw) THEN 30
        ELSE 50,
     node_type |->
        IF \E kw \in {"trauma", "threat"} : Contains(text, kw) THEN "threat"
        ELSE IF \E kw \in {"joy", "happy", "positive"} : Contains(text, kw)
        THEN "joy"
        ELSE IF \E kw \in {"achievement", "completed"} : Contains(text, kw)
        THEN "achievement"
        ELSE "memory"]

\* The retry loop of analyze_event_importance (lines 119-173); attempt
\* counts from 0.  A reply is "ok" (status 200 and a JSON object: its
\* importance goes through float(), its node_type is taken as it is),
\* "text" (status 200, no JSON object), "status" (another status: the
\* loop goes on), "bad_json", "timeout" or "request_error" (retried until
\* the last attempt), or "bad_number" (float() raises: no retry).
RECURSIVE analyze_attempts(_, _, _)
analyze_attempts(event, llm, attempt) ==
    IF attempt >= LLM_MAX_RETRIES
    THEN Only({Analysis(f.importance, f.node_type, attempt, "fallback") :
               f \in {fallback_analysis(event)}})
    ELSE LET reply == llm.replies[attempt + 1] IN
         CASE reply = "ok" ->
                Analysis(llm.importance, llm.node_type, attempt + 1, "llm")
           [] reply = "text" ->
                Only({Analysis(p.importance, p.node_type, attempt + 1, "text") :
                      p \in {parse_text_response(llm.text)}})
           [] reply = "status" -> analyze_attempts(event, llm, attempt + 1)
           [] reply \in {"bad_json", "timeout", "request_error"}
                /\ attempt < LLM_MAX_RETRIES - 1 ->
                analyze_attempts(event, llm, attempt + 1)
           [] OTHER ->
                Only({Analysis(f.importance, f.node_type, attempt + 1, "fallback") :
                      f \in {fallback_analysis(event)}})

\* CognitiveAnalyzer.analyze_event_importance: the keyword fallback when
\* the availability probe fails, the retry loop otherwise.
analyze_event_importance(event, llm) ==
    IF ~llm.available
    THEN Only({Analysis(f.importance, f.node_type, 0, "fallback") :
               f \in {fallback_analysis(event)}})
    ELSE analyze_attempts(event, llm, 0)

\* determine_threshold without the adjustment for an anxious agent.
determine_threshold_no_anxiety(event_type, memory_count, personality) ==
    LET b0 == ThresholdOf(event_type)
        b1 == IF memory_count > MEMORY_DENSITY_THRESHOLD THEN b0 + 1 ELSE b0
    IN  Max(1, Min(9, b1))

\* CognitiveAnalyzer.determine_threshold, in tenths.
determine_threshold(event_type, memory_count, personality) ==
    LET b0 == ThresholdOf(event_type)
        b1 == IF memory_count > MEMORY_DENSITY_THRESHOLD THEN b0 + 1 ELSE b0
        b2 == IF event_type \in {"threat", "trauma"} /\ personality["Neuroticism"] > 7
              THEN b1 - 2 ELSE b1
    IN  Max(1, Min(9, b2))

\* _apply_personality_modulation that gives threats the weight of positive
\* events and leaves the other traits out.
apply_personality_modulation_calming(personality, base_importance, event, node_type) ==
    LET PM == PERSONALITY_MODULATION
        m5 == IF node_type \in {"threat", "trauma", "joy", "achievement"}
              THEN PM.Neuroticism.positive_events * personality["Neuroticism"]
              ELSE 0
    IN  Max(0, Min(Scale, base_importance * (100 + m5)))

\* EgoGraph._apply_personality_modulation: base_importance in thousandths,
\* the modulator in hundredths, the result in units of 1/Scale.
apply_personality_modulation(personality, base_importance, event, node_type) ==
    LET PM == PERSONALITY_MODULATION
        m1 == IF node_type \notin {"routine", "casual"}
              THEN PM.Openness.novel_events * (personality["Openness"] - 5) ELSE 0
        m2 == IF node_type = "achievement"
              THEN PM.Conscientiousness.achievement_events
                       * (personality["Conscientiousness"] - 5) ELSE 0
        m3 == IF event.user_name # None \/ event.user_id # None
              THEN PM.Extroversion.social_events * (personality["Extroversion"] - 5)
              ELSE 0
        m4 == IF node_type \in {"joy", "achievement"}
              THEN PM.Agreeableness.positive_social * (personality["Agreeableness"] - 5)
              ELSE IF node_type \in {"threat", "trauma"}
              THEN PM.Agreeableness.negative_social * (personality["Agreeableness"] - 5)
              ELSE 0
        m5 == IF node_type \in {"threat", "trauma"}
              THEN PM.Neuroticism.threat_events * personality["Neuroticism"]
              ELSE IF node_type \in {"joy", "achievement"}
              THEN PM.Neuroticism.positive_events * personality["Neuroticism"]
              ELSE 0
        modulator == 100 + m1 + m2 + m3 + m4 + m5
    IN  Max(0, Min(Scale, base_importance * modulator))

\* The value returned by process_event_frame.
Result(status, id, importance, threshold, added, memory_id, action, reason, type) ==
    [status |-> status, event_id |-> id, importance |-> importance,
     threshold |-> threshold, added_to_graph |-> added,
     memory_id |-> memory_id, action |-> action, episodic_reason |-> reason,
     node_type |-> type]
\* The error result of the except handler (lines 1208-1213).
ErrorResult(event_data) ==
    Result("error", event_data.frame_id, NoAttr, NoAttr, FALSE, None, None,
           FALSE, None)

\* What the collaborators answer during one event: the reasoning model
\* (unavailable, or its importance and node type), the semantic score the
\* embeddings give, and whether the store write succeeds.
Oracle(llm, sem, storeOk) == [llm |-> llm, sem |-> sem, storeOk |-> storeOk]
\* The reasoning collaborator during one event: whether the probe finds
\* it, its replies to the successive generate requests, and what a reply
\* holds (importance and node_type of a JSON reply, the words of a text
\* reply).
LlmReplies(replies, importance, type, text) ==
    [available |-> TRUE, replies |-> replies, importance |-> importance,
     node_type |-> type, text |-> text]
Llm(importance, type) == LlmReplies(<<"ok", "ok", "ok">>, importance, type, {})
Unavailable ==
    [available |-> FALSE, replies |-> << >>, importance |-> 0,
     node_type |-> None, text |-> {}]
\* The events processed one at a time, each with the collaborators' answers.
EventCases ==
    {<<EvThreat, Oracle(Llm(100, "threat"), 95, TRUE)>>,
     <<EvThreat, Oracle(Llm(100, "threat"), 95, FALSE)>>,
     <<EvRoutine, Oracle(Llm(10, "routine"), 50, TRUE)>>,
     <<EvAchievement, Oracle(Unavailable, 50, TRUE)>>,
     <<EvAchievement, Oracle(Llm(95, "joy"), 95, TRUE)>>,
     <<EvNoDescription, Oracle(Unavailable, 50, TRUE)>>,
     <<EvWrongType, Oracle(Unavailable, 50, TRUE)>>,
     <<EvNotMapping, Oracle(Unavailable, 50, TRUE)>>,
     <<EvAchievement,
       Oracle(LlmReplies(<<"timeout", "bad_json", "request_error">>, 0, None, {}),
              50, TRUE)>>,
     <<EvAchievement,
       Oracle(LlmReplies(<<"status", "status", "status">>, 0, None, {}),
              50, TRUE)>>,
     <<EvRoutine,
       Oracle(LlmReplies(<<"bad_json", "ok", "ok">>, 10, "routine", {}),
              50, TRUE)>>,
     <<EvAchievement,
       Oracle(LlmReplies(<<"bad_number", "ok", "ok">>, 0, "joy", {}), 50, TRUE)>>,
     <<EvThreat,
       Oracle(LlmReplies(<<"text", "ok", "ok">>, 0, None,
                         {"significant", "threat"}), 50, TRUE)>>,
     <<EvAchievement, Oracle(Llm(100, None), 50, TRUE)>>,
     <<EvAchievement, Oracle(Llm(100, "surprise"), 50, TRUE)>>}

\* The scoring part of process_event_frame (lines 1111-1153) for a parsed
\* event: the number of records retrieved, the analysis, the final
\* importance and the threshold.
Score(w, event, o) ==
    LET heuristic_score == heuristic_importance_score(event)
        semantic_score == semantic_importance_score(w, o.sem)
        llm_result == analyze_event_importance(event, o.llm)
        base_importance == 20 * heuristic_score + 3 * semantic_score
                             + 5 * llm_result.importance
        final_importance ==
            apply_personality_modulation(w.personality, base_importance, event,
                                         llm_result.node_type)
        threshold == determine_threshold(llm_result.node_type,
                                         Cardinality(DOMAIN w.nodes), w.personality)
    IN  [final_importance |-> final_importance, threshold |-> threshold,
         node_type |-> llm_result.node_type, analysis |-> llm_result,
         relevant_memories_count |->
            retrieve_relevant_memories(w.store,
                                       Or(event.user_id, event.user_name), 5)]

\* The decision taken with a strict comparison.
AdmittedStrict(final_importance, threshold) == final_importance * 10 > threshold * Scale

\* The decision of process_event_frame (line 1172).
Admitted(final_importance, threshold) == final_importance * 10 >= threshold * Scale

\* process_event_frame whose episodic branch commits as well.
process_event_frame_always_commits(w, event_data, o) ==
    IF ~event_data.isMapping
    THEN [w |-> w, raised |-> TRUE, result |-> ErrorResult(event_data),
          analysis |-> NoAnalysis,
          relevant_memories_count |-> NoAttr]
    ELSE LET event == from_dict(event_data) IN
    IF ~event.descIsStr \/ "to_dict" \in w.shadowed
    THEN [w |-> w, raised |-> FALSE, result |-> ErrorResult(event_data),
          analysis |-> NoAnalysis,
          relevant_memories_count |-> NoAttr]
    ELSE LET s == Score(w, event, o)
             memory == MemoryNode(uuid4(w.nextId), s.final_importance,
                                  Or(event.user_id, event.user_name), s.node_type)
             r == add_memory_node([w EXCEPT !.nextId = @ + 1], memory, o.storeOk)
         IN  IF r.raised
             THEN [w |-> r.w, raised |-> FALSE,
                   result |-> ErrorResult(event_data), analysis |-> s.analysis,
                   relevant_memories_count |-> s.relevant_memories_count]
             ELSE [w |-> r.w, raised |-> FALSE,
                   result |-> Result("processed", event.frame_id,
                                     s.final_importance, s.threshold,
                                     Admitted(s.final_importance, s.threshold),
                                     IF Admitted(s.final_importance, s.threshold)
                                     THEN memory.id ELSE None,
                                     IF Admitted(s.final_importance, s.threshold)
                                     THEN "added_to_graph" ELSE "stored_as_episodic",
                                     ~Admitted(s.final_importance, s.threshold),
                                     s.node_type),
                   analysis |-> s.analysis,
                   relevant_memories_count |-> s.relevant_memories_count]

\* EgoGraph.process_event_frame.  An exception inside the try block gives
\* the error result; the handler itself reads event_data.get, which raises
\* again when event_data is no mapping, and that one propagates.
process_event_frame(w, event_data, o) ==
    IF ~event_data.isMapping
    THEN [w |-> w, raised |-> TRUE, result |-> ErrorResult(event_data),
          analysis |-> NoAnalysis,
          relevant_memories_count |-> NoAttr]
    ELSE LET event == from_dict(event_data) IN
    IF ~event.descIsStr \/ "to_dict" \in w.shadowed
    THEN [w |-> w, raised |-> FALSE, result |-> ErrorResult(event_data),
          analysis |-> NoAnalysis,
          relevant_memories_count |-> NoAttr]
    ELSE LET s == Score(w, event, o) IN
    IF Admitted(s.final_importance, s.threshold)
    THEN LET memory == MemoryNode(uuid4(w.nextId), s.final_importance,
                                  Or(event.user_id, event.user_name), s.node_type)
             r == add_memory_node([w EXCEPT !.nextId = @ + 1], memory, o.storeOk)
         IN  IF r.raised
             THEN [w |-> r.w, raised |-> FALSE,
                   result |-> ErrorResult(event_data), analysis |-> s.analysis,
                   relevant_memories_count |-> s.relevant_memories_count]
             ELSE [w |-> r.w, raised |-> FALSE,
                   result |-> Result("processed", event.frame_id,
                                     s.final_importance, s.threshold,
                                     TRUE, memory.id, "added_to_graph", FALSE,
                                     s.node_type),
                   analysis |-> s.analysis,
                   relevant_memories_count |-> s.relevant_memories_count]
    ELSE [w |-> w, raised |-> FALSE,
          result |-> Result("processed", event.frame_id, s.final_importance,
                            s.threshold, FALSE, None, "stored_as_episodic",
                            TRUE, s.node_type),
          analysis |-> s.analysis,
                   relevant_memories_count |-> s.relevant_memories_count]

\* EgoGraph.process_event_batch: the events in order, each one's result
\* appended; an exception that leaves process_event_frame ends the loop and
\* the call.  The summary reads the graph state, hence the personality.
RECURSIVE BatchLoop(_, _, _, _)
BatchLoop(w, events_data, oracles, results) ==
    IF events_data = << >> THEN [w |-> w, raised |-> FALSE, results |-> results]
    ELSE Only({IF r.raised THEN [w |-> r.w, raised |-> TRUE, results |-> results]
               ELSE BatchLoop(r.w, Tail(events_data), Tail(oracles),
                              Append(results, r.result)) :
               r \in {process_event_frame(w, Head(events_data), Head(oracles))}})

\* process_event_batch that takes the events last to first and returns
\* the results in the order of the events.
process_event_batch_reversed(w, events_data, oracles) ==
    Only({IF l.raised \/ "to_dict" \in l.w.shadowed
          THEN [w |-> l.w, raised |-> TRUE, results |-> l.results,
                total_events |-> NoAttr]
          ELSE [w |-> l.w, raised |-> FALSE,
                results |-> [i \in 1..Len(l.results) |->
                                l.results[Len(l.results) + 1 - i]],
                total_events |-> Len(events_data)] :
          l \in {BatchLoop(w,
                           [i \in 1..Len(events_data) |->
                               events_data[Len(events_data) + 1 - i]],
                           [i \in 1..Len(oracles) |->
                               oracles[Len(oracles) + 1 - i]],
                           << >>)}})

process_event_batch(w, events_data, oracles) ==
    Only({IF l.raised \/ "to_dict" \in l.w.shadowed
          THEN [w |-> l.w, raised |-> TRUE, results |-> l.results,
                total_events |-> NoAttr]
          ELSE [w |-> l.w, raised |-> FALSE, results |-> l.results,
                total_events |-> Len(events_data)] :
          l \in {BatchLoop(w, events_data, oracles, << >>)}})

\* ------------------------------------------------------------ interaction
\* name.lower() on the names that occur.
Lower(name) ==
    CASE name = "Bob" -> "bob"
      [] name = "Ian" -> "ian"
      [] name = "User" -> "user"
      [] OTHER -> name
\* f"user_{name.lower().replace(' ', '_')}"
user_(name) == NodeId("user_", 0, Lower(name))

\* An utterance, by what the code's pattern and keyword scans find in it:
\* an intro keyword, the name the intro patterns capture, the name
\* _check_for_different_person's patterns capture, a threat keyword
\* (sudden, movement, threat), a kindness keyword (friendly, kind, help),
\* the widest planning-keyword list it hits ("gate": only the gate's list,
\* "fallback": also the status fallback's, "core": all three) and a
\* safe keyword.
Utterance(intro, regexName, otherName, threat, kind, planKw, safe) ==
    [intro |-> intro, regexName |-> regexName, otherName |-> otherName,
     threat |-> threat, kind |-> kind, planKw |-> planKw, safe |-> safe]

\* "Hello there"
UtHello == Utterance(FALSE, None, None, FALSE, FALSE, "none", FALSE)
\* "My name is Bob, can you help me"
UtIntroBob == Utterance(TRUE, "Bob", "Bob", FALSE, TRUE, "none", FALSE)
\* "Sudden movement! bring me the cup"
UtThreatBring == Utterance(FALSE, None, None, TRUE, FALSE, "core", TRUE)
\* "Friendly wave from student"
UtFriendly == Utterance(FALSE, None, None, FALSE, TRUE, "none", FALSE)
\* "My name is Ian"
UtIntroIan == Utterance(TRUE, "Ian", "Ian", FALSE, FALSE, "none", FALSE)
\* "Ian said hello": the second pattern of _check_for_different_person
\* has two groups, and the code takes the second one, the verb.
UtIanSaid == Utterance(FALSE, None, "said", FALSE, FALSE, "none", FALSE)

\* What the collaborators answer during one turn: the name extraction
\* (a name or None), the planning-need call and the decision call ("yes",
\* "no", "nojson" for a reply without a JSON object, "status" for a
\* non-200 status, "badjson" for an object that does not parse, "timeout"
\* and "error" for an exception of the request), the planner (TRUE: a plan came back), the response call
\* ("ok", "timeout", "connection", "status" for a non-200 status, "nobody"
\* for a body that is no JSON, "null" for a response field that is no
\* string, "nofield" for a JSON body without the response field) and the
\* store write.
Turn(nameLlm, planLlm, decisionLlm, planner, responseLlm, storeOk) ==
    [nameLlm |-> nameLlm, planLlm |-> planLlm, decisionLlm |-> decisionLlm,
     planner |-> planner, responseLlm |-> responseLlm, storeOk |-> storeOk]
\* The ways the response call fails.
ResponseFailures == {"timeout", "connection", "status", "nobody", "null"}
\* The turns: the caller, the utterance, the collaborators' answers.
TurnCases ==
    {<<"User", UtHello, Turn(None, "yes", "yes", TRUE, "ok", TRUE)>>,
     <<"User", UtHello, Turn("Bob", "yes", "yes", TRUE, "timeout", TRUE)>>,
     <<"User", UtIntroBob, Turn(None, "yes", "yes", TRUE, "ok", TRUE)>>,
     <<"Bob", UtIntroBob, Turn(None, "yes", "yes", TRUE, "ok", FALSE)>>,
     <<"Bob", UtHello, Turn(None, "yes", "yes", TRUE, "nofield", TRUE)>>,
     <<"Bob", UtThreatBring, Turn(None, "yes", "yes", TRUE, "ok", TRUE)>>,
     <<"Bob", UtThreatBring, Turn(None, "error", "error", FALSE, "connection", TRUE)>>,
     <<"User", UtThreatBring, Turn(None, "nojson", "no", FALSE, "status", TRUE)>>,
     <<"Bob", UtFriendly, Turn(None, "yes", "yes", TRUE, "null", TRUE)>>,
     <<"User", UtIntroIan, Turn(None, "yes", "yes", TRUE, "nobody", TRUE)>>,
     <<"User", UtIanSaid, Turn(None, "yes", "yes", TRUE, "ok", TRUE)>>}

\* EgoGraph._extract_user_info: the name found, or None.
extract_user_info(utt, current_user, t) ==
    IF ~utt.intro /\ current_user # "User" THEN None
    ELSE IF utt.regexName # None THEN utt.regexName
    ELSE t.nameLlm

\* The names _check_for_different_person refuses (line 588).
ReservedNames == {"User", "Ian", "Vedant"}

\* EgoGraph._check_for_different_person.
check_for_different_person(utt) ==
    IF utt.otherName # None /\ utt.otherName \notin ReservedNames
    THEN utt.otherName ELSE None

\* EgoGraph._create_user_node (the content update of an existing node is
\* not part of the state kept here).
create_user_node(w, name) ==
    IF has_node(w, user_(name)) THEN w
    ELSE [w EXCEPT !.nodes = AddNode(@, user_(name),
                                     Node("user", 8 * (Scale \div 10), None, None)),
                   !.edges = AddEdge(@, SELF, user_(name), Rat(5, 10), "knows")]

\* Every utterance, by what the scans find in it.
Utterances ==
    {Utterance(intro, None, None, threat, kind, planKw, safe) :
        intro \in BOOLEAN, threat \in BOOLEAN, kind \in BOOLEAN,
        planKw \in {"none", "core"}, safe \in BOOLEAN}

\* The nodes filter_perception counts as trauma (lines 364-365).
trauma_nodes(w) ==
    {id \in DOMAIN w.nodes : w.nodes[id].node_type \in {"trauma", "threat"}}

\* filter_perception without the trauma-node override.
filter_perception_no_override(w, utt) ==
    LET N == w.personality["Neuroticism"]
        A == w.personality["Agreeableness"]
        d1 == IF utt.threat /\ N > 8 THEN "reject" ELSE "accept"
    IN  IF utt.kind /\ A > 7 THEN "accept"
        ELSE IF utt.kind /\ A < 3 THEN "cautious" ELSE d1

\* EgoGraph.filter_perception: the decision.
filter_perception(w, utt) ==
    LET N == w.personality["Neuroticism"]
        A == w.personality["Agreeableness"]
        d1 == IF utt.threat /\ N > 8 THEN "reject" ELSE "accept"
        d2 == IF utt.kind /\ A > 7 THEN "accept"
              ELSE IF utt.kind /\ A < 3 THEN "cautious" ELSE d1
    IN  IF trauma_nodes(w) # {} /\ N > 6 THEN "reject" ELSE d2

\* EgoGraph._detect_planning_need: needs_planning.
detect_planning_need(utt, t) ==
    IF utt.planKw = "none" THEN FALSE
    ELSE CASE t.planLlm = "yes" -> TRUE
           [] t.planLlm = "no" -> FALSE
           [] t.planLlm \in {"nojson", "status"} ->
                utt.planKw \in {"fallback", "core"}
           [] OTHER -> utt.planKw = "core"

\* _make_decision that consults the collaborator on a rejected turn too.
make_decision_ignores_rejection(w, utt, perception, t) ==
    IF utt.safe /\ w.personality["Agreeableness"] > 5
    THEN [proceed |-> TRUE, called |-> FALSE]
    ELSE [proceed |-> t.decisionLlm # "no", called |-> TRUE]

\* EgoGraph._make_decision: proceed, and whether the decision collaborator
\* was called.
make_decision(w, utt, perception, t) ==
    IF perception = "reject" THEN [proceed |-> FALSE, called |-> FALSE]
    ELSE IF utt.safe /\ w.personality["Agreeableness"] > 5
    THEN [proceed |-> TRUE, called |-> FALSE]
    ELSE [proceed |-> t.decisionLlm # "no", called |-> TRUE]

\* EgoGraph._generate_plan: whether a plan came back.
generate_plan(t) == t.planner

\* The importance of the turn's record (lines 448-452), in tenths: the
\* second assignment overwrites the first.
interaction_importance(perception, needs_planning) ==
    LET i1 == IF perception = "reject" THEN 7 ELSE 5
    IN  IF needs_planning THEN 6 ELSE i1

\* The node type of every turn's record being memory.
interaction_node_type_memory(plan) == "memory"

\* The node type of the turn's record (line 464).
interaction_node_type(plan) == IF plan THEN "achievement" ELSE "memory"

\* _generate_llm_response that lets the request's exception through.
generate_llm_response_raising(w, perception, t) ==
    LET cautious == w.personality["Neuroticism"] > 7 /\ perception # "reject"
    IN  CASE t.responseLlm = "ok" ->
                IF cautious THEN "llm_text_cautious" ELSE "llm_text"
          [] t.responseLlm = "nofield" ->
                IF cautious THEN "placeholder_cautious" ELSE "placeholder"
          [] t.responseLlm = "status" -> "template"
          [] OTHER -> None

\* EgoGraph._generate_llm_response: the text returned.  "template" is
\* "I understand. {action} noted."; "placeholder" the default of
\* response_data.get("response", ...); the caution suffix is added to a
\* collaborator's text when Neuroticism > 0.7 on a turn not rejected.
generate_llm_response(w, perception, t) ==
    LET cautious == w.personality["Neuroticism"] > 7 /\ perception # "reject"
    IN  CASE t.responseLlm = "ok" ->
                IF cautious THEN "llm_text_cautious" ELSE "llm_text"
          [] t.responseLlm = "nofield" ->
                IF cautious THEN "placeholder_cautious" ELSE "placeholder"
          [] OTHER -> "template"

\* EgoGraph.process_interaction.  The perception result embeds
\* personality.to_dict(), so the turn raises there when that method is
\* shadowed; a failing store write raises at the commit, after the
\* decision and the planner were consulted and before the response.
process_interaction(w, user, utt, t) ==
    LET name == extract_user_info(utt, user, t)
        other == IF name = None /\ user = "User"
                 THEN check_for_different_person(utt) ELSE None
        current_user_name == IF name # None THEN name
                             ELSE IF other # None THEN other ELSE user
        w1 == IF name # None THEN create_user_node(w, name) ELSE w
    IN  IF "to_dict" \in w1.shadowed
        THEN [w |-> w1, raised |-> TRUE, memory |-> None, perception |-> None,
              needs_planning |-> FALSE, decision |-> None,
              decisionCalled |-> FALSE, plannerCalled |-> FALSE,
              proceed |-> FALSE, plan |-> FALSE, response |-> None,
              retrieved |-> NoAttr, memories_used |-> NoAttr]
        ELSE
    LET perception == filter_perception(w1, utt)
        retrieved == retrieve_relevant_memories(w1.store, current_user_name, 10)
        relevant_memories ==
            IF current_user_name # "User" /\ has_node(w1, user_(current_user_name))
            THEN retrieved + 1 ELSE retrieved
        needs_planning == detect_planning_need(utt, t)
        decision == make_decision(w1, utt, perception, t)
        proceed == needs_planning /\ decision.proceed
        plan == proceed /\ generate_plan(t)
        memory == MemoryNode(uuid4(w1.nextId),
                             interaction_importance(perception, needs_planning)
                                 * (Scale \div 10),
                             current_user_name, interaction_node_type(plan))
        r == add_memory_node([w1 EXCEPT !.nextId = @ + 1], memory, t.storeOk)
        response == IF r.raised THEN None
                    ELSE generate_llm_response(r.w, perception, t)
    IN  [w |-> r.w, raised |-> r.raised,
         memory |-> IF r.raised THEN None ELSE memory,
         perception |-> perception, needs_planning |-> needs_planning,
         decision |-> IF ~needs_planning THEN None
                      ELSE IF decision.proceed THEN "proceed" ELSE "refuse",
         decisionCalled |-> needs_planning /\ decision.called,
         plannerCalled |-> proceed,
         proceed |-> proceed, plan |-> plan, response |-> response,
         retrieved |-> retrieved, memories_used |-> relevant_memories]

\* ------------------------------------------------- personality operations
\* update_personality that leaves the SELF node's copy as it was.
update_personality_stale_self(w, trait, value) ==
    IF "update_trait" \in w.shadowed THEN [w |-> w, raised |-> TRUE]
    ELSE LET w1 == update_trait(w, trait, value) IN
    IF "to_dict" \in w1.shadowed THEN [w |-> w1, raised |-> TRUE]
    ELSE [w |-> [w1 EXCEPT !.edges = reweight_edges(w1)], raised |-> FALSE]

\* EgoGraph.update_personality.  Calling a shadowed method raises; the
\* SELF node and the edges are only reached when both calls succeed.
update_personality(w, trait, value) ==
    IF "update_trait" \in w.shadowed THEN [w |-> w, raised |-> TRUE]
    ELSE LET w1 == update_trait(w, trait, value) IN
    IF "to_dict" \in w1.shadowed THEN [w |-> w1, raised |-> TRUE]
    ELSE LET w2 == [w1 EXCEPT !.selfPersonality = w1.personality]
         IN  [w |-> [w2 EXCEPT !.edges = reweight_edges(w2)], raised |-> FALSE]

\* The tail shared by inject_trauma and inject_kindness (lines 926-927,
\* 950-951): refresh the SELF node, reweight.
AfterInjection(w) ==
    IF "to_dict" \in w.shadowed THEN [w |-> w, raised |-> TRUE]
    ELSE LET w2 == [w EXCEPT !.selfPersonality = w.personality]
         IN  [w |-> [w2 EXCEPT !.edges = reweight_edges(w2)], raised |-> FALSE]

\* EgoGraph.inject_trauma.
inject_trauma(w, storeOk) ==
    LET trauma == MemoryNode(uuid4(w.nextId), 95 * (Scale \div 100), None, "threat")
        r == add_memory_node([w EXCEPT !.nextId = @ + 1], trauma, storeOk)
    IN  IF r.raised THEN r
        ELSE AfterInjection([r.w EXCEPT !.personality["Neuroticism"] = 9,
                                        !.personality["Agreeableness"] = 1])

\* EgoGraph.inject_kindness.
inject_kindness(w, storeOk) ==
    LET joy == MemoryNode(uuid4(w.nextId), 9 * (Scale \div 10), None, "joy")
        r == add_memory_node([w EXCEPT !.nextId = @ + 1], joy, storeOk)
    IN  IF r.raised THEN r
        ELSE AfterInjection(
               [r.w EXCEPT !.personality["Agreeableness"] = Min(10, @ + 2),
                           !.personality["Neuroticism"] = Max(0, @ - 1)])

\* ScenarioManager.reset_to_neutral: a new PersonalityVector instance.
reset_to_neutral(w) ==
    LET w1 == [w EXCEPT !.personality = PersonalityVector, !.shadowed = {},
                        !.selfPersonality = PersonalityVector]
    IN  [w1 EXCEPT !.edges = reweight_edges(w1)]

\* ------------------------------------------------------------------ state
VARIABLES
    personality,      \* EgoGraph.personality: trait -> tenths
    shadowed,         \* method names of the personality instance overwritten
    selfPersonality,  \* graph.nodes["SELF"]["personality"]
    nodes,            \* graph nodes: id -> attributes
    edges,            \* graph edges: <<source, target>> -> weight, edge_type
    store,            \* the records of the two store collections
    nextId,           \* identifiers drawn so far
    ops,              \* operations run so far
    last,             \* the last operation: its name, input and outcome
    active_connections,  \* ConnectionManager.active_connections, a list
    endpoint,         \* where the websocket_endpoint task of each socket is
    closed,           \* the sockets whose client has gone
    requests,         \* the request handler tasks: handler, position,
                      \* the index and the `disconnected` list of its broadcast
    loop,             \* the handler task running on the event loop (0: none)
    in_op,            \* the state each EgoGraph operation under way started on
    completed,        \* the handlers whose operation returned, in that order
    removed           \* per socket, who removed it from active_connections

server_vars ==
    <<active_connections, endpoint, closed, requests, loop, in_op, completed,
      removed>>

vars == <<personality, shadowed, selfPersonality, nodes, edges, store, nextId,
          ops, last, server_vars>>

World ==
    [personality |-> personality, shadowed |-> shadowed,
     selfPersonality |-> selfPersonality, nodes |-> nodes, edges |-> edges,
     store |-> store, nextId |-> nextId]

\* The agent's state becomes w.
BecomesWorld(w) ==
    /\ personality' = w.personality
    /\ shadowed' = w.shadowed
    /\ selfPersonality' = w.selfPersonality
    /\ nodes' = w.nodes
    /\ edges' = w.edges
    /\ store' = w.store
    /\ nextId' = w.nextId

\* One operation on the agent, called directly.
Becomes(w) ==
    /\ BecomesWorld(w)
    /\ ops' = ops + 1
    /\ UNCHANGED server_vars

\* EgoGraph(): the SELF node alone, a neutral personality.
EgoGraph ==
    [personality |-> PersonalityVector, shadowed |-> {},
     selfPersonality |-> PersonalityVector,
     nodes |-> AddNode(EmptyFn, SELF, Node("self", NoAttr, None, None)),
     edges |-> EmptyFn, store |-> {}, nextId |-> 0]

Sockets == 1..MaxSockets

\* brain_server.py at import: manager = ConnectionManager(), no request
\* and no client yet.
InitServer ==
    /\ active_connections = << >>
    /\ endpoint = [s \in Sockets |-> "new"]
    /\ closed = {}
    /\ requests = << >>
    /\ loop = 0
    /\ in_op = EmptyFn
    /\ completed = << >>
    /\ removed = [s \in Sockets |-> << >>]

\* EgoGraph.__init__: the SELF node alone, a neutral personality.
Init ==
    /\ personality = PersonalityVector
    /\ shadowed = {}
    /\ selfPersonality = PersonalityVector
    /\ nodes = AddNode(EmptyFn, SELF, Node("self", NoAttr, None, None))
    /\ edges = EmptyFn
    /\ store = {}
    /\ nextId = 0
    /\ ops = 0
    /\ last = [op |-> "init", raised |-> FALSE, reweighted |-> FALSE]
    /\ InitServer

\* The trait names and values (in tenths) a client sends.
UpdateInputs ==
    {<<"Neuroticism", 15>>, <<"Neuroticism", -3>>, <<"Neuroticism", 3>>,
     <<"Agreeableness", 8>>, <<"Openness", 15>>, <<"Conscientiousness", -3>>,
     <<"Extroversion", 7>>, <<"Opennes", 7>>, <<"to_dict", 5>>,
     <<"update_trait", 5>>}

UpdatePersonality ==
    /\ ops < MaxOps
    /\ \E in \in UpdateInputs :
         \E r \in {update_personality(World, in[1], in[2])} :
             /\ Becomes(r.w)
             /\ last' = [op |-> "update_personality", raised |-> r.raised,
                         reweighted |-> ~r.raised, trait |-> in[1],
                         value |-> in[2], before |-> personality]

InjectTrauma ==
    /\ ops < MaxOps
    /\ \E storeOk \in BOOLEAN :
         \E r \in {inject_trauma(World, storeOk)} :
             /\ Becomes(r.w)
             /\ last' = [op |-> "inject_trauma", raised |-> r.raised,
                         reweighted |-> ~r.raised, storeOk |-> storeOk]

InjectKindness ==
    /\ ops < MaxOps
    /\ \E storeOk \in BOOLEAN :
         \E r \in {inject_kindness(World, storeOk)} :
             /\ Becomes(r.w)
             /\ last' = [op |-> "inject_kindness", raised |-> r.raised,
                         reweighted |-> ~r.raised, storeOk |-> storeOk]

ResetToNeutral ==
    /\ ops < MaxOps
    /\ \E w \in {reset_to_neutral(World)} : Becomes(w)
    /\ last' = [op |-> "reset_to_neutral", raised |-> FALSE, reweighted |-> TRUE]

\* The memories handed to add_memory_node directly (brain_server.py: the
\* startup record and the record of a generated plan).
DirectMemories ==
    {<<MemoryNode(None, 3 * (Scale \div 10), None, "memory"), TRUE>>,
     <<MemoryNode(None, 7 * (Scale \div 10), "Bob", "achievement"), TRUE>>,
     <<MemoryNode(None, 7 * (Scale \div 10), "Bob", "achievement"), FALSE>>}

AddMemoryNode ==
    /\ ops < MaxOps
    /\ \E c \in DirectMemories :
         \E memory \in {MemoryNode(uuid4(nextId), c[1].importance,
                                   c[1].user_context, c[1].node_type)} :
         \E r \in {add_memory_node([World EXCEPT !.nextId = @ + 1], memory, c[2])} :
             /\ Becomes(r.w)
             /\ last' = [op |-> "add_memory_node", raised |-> r.raised,
                         reweighted |-> FALSE, memory |-> memory,
                         storeOk |-> c[2]]

ProcessEventFrame ==
    /\ ops < MaxOps
    /\ \E c \in EventCases :
         \E r \in {process_event_frame(World, c[1], c[2])} :
             /\ Becomes(r.w)
             /\ last' = [op |-> "process_event_frame", raised |-> r.raised,
                         reweighted |-> FALSE, event |-> c[1],
                         llm |-> c[2].llm, analysis |-> r.analysis,
                         result |-> r.result,
                         relevant_memories_count |-> r.relevant_memories_count,
                         nodesBefore |-> nodes, edgesBefore |-> edges,
                         storeBefore |-> store]

\* The events of batches, each with the collaborators' answers.
BatchCases ==
    {<<EvNoDescription, Oracle(Unavailable, 50, TRUE)>>,
     <<EvWrongType, Oracle(Unavailable, 50, TRUE)>>,
     <<EvNotMapping, Oracle(Unavailable, 50, TRUE)>>,
     <<EvThreat, Oracle(Llm(100, "threat"), 95, TRUE)>>,
     <<EvAchievement, Oracle(Unavailable, 95, TRUE)>>}
Seqs(S, n) == UNION {[1..k -> S] : k \in 0..n}

ProcessEventBatch ==
    /\ ops < MaxOps
    /\ \E b \in Seqs(BatchCases, MaxBatch) :
         \E events_data \in {[i \in 1..Len(b) |-> b[i][1]]} :
         \E oracles \in {[i \in 1..Len(b) |-> b[i][2]]} :
         \E r \in {process_event_batch(World, events_data, oracles)} :
             /\ Becomes(r.w)
             /\ last' = [op |-> "process_event_batch", raised |-> r.raised,
                         reweighted |-> FALSE, events |-> events_data,
                         oracles |-> oracles, results |-> r.results,
                         total_events |-> r.total_events]

ProcessInteraction ==
    /\ ops < MaxOps
    /\ \E c \in TurnCases :
         \E r \in {process_interaction(World, c[1], c[2], c[3])} :
             /\ Becomes(r.w)
             /\ last' = [op |-> "process_interaction", raised |-> r.raised,
                         reweighted |-> FALSE, user |-> c[1], utterance |-> c[2],
                         turn |-> c[3], memory |-> r.memory,
                         perception |-> r.perception,
                         needs_planning |-> r.needs_planning,
                         decision |-> r.decision,
                         decisionCalled |-> r.decisionCalled,
                         plannerCalled |-> r.plannerCalled,
                         proceed |-> r.proceed, plan |-> r.plan,
                         response |-> r.response,
                         retrieved |-> r.retrieved,
                         memories_used |-> r.memories_used,
                         nodesBefore |-> nodes]

Next ==
    \/ UpdatePersonality
    \/ InjectTrauma
    \/ InjectKindness
    \/ ResetToNeutral
    \/ AddMemoryNode
    \/ ProcessEventFrame
    \/ ProcessEventBatch
    \/ ProcessInteraction

Spec == Init /\ [][Next]_vars

\* ------------------------------------------------- a populated graph
\* The graph after m records were handed to add_memory_node (the startup
\* of brain_server.py loads the test knowledge graph that way), each a
\* global memory of the given importance: the first half of them, then
\* the rest.
RECURSIVE Populated(_, _, _)
Populated(w, m, importance) ==
    IF m = 0 THEN w
    ELSE IF m = 1
    THEN add_memory_node([w EXCEPT !.nextId = @ + 1],
                         MemoryNode(uuid4(w.nextId), importance, None, "memory"),
                         TRUE).w
    ELSE Only({Populated(h, m - (m \div 2), importance) :
               h \in {Populated(w, m \div 2, importance)}})

\* The graphs a request finds: the number of records loaded and their
\* importance, around the density constant and around the five
\* candidates of the semantic score.
PopulatedGraphs ==
    {<<MEMORY_DENSITY_THRESHOLD - 1, 5 * (Scale \div 10)>>,
     <<MEMORY_DENSITY_THRESHOLD, 5 * (Scale \div 10)>>,
     <<MEMORY_DENSITY_THRESHOLD + 1, 5 * (Scale \div 10)>>,
     <<4, 8 * (Scale \div 10)>>, <<5, 8 * (Scale \div 10)>>,
     <<6, 8 * (Scale \div 10)>>}

\* The agent on a populated graph, one request before the end of the run.
InitPopulated ==
    /\ \E g \in PopulatedGraphs :
         \E w \in {Populated(EgoGraph, g[1], g[2])} :
             /\ personality = w.personality
             /\ shadowed = w.shadowed
             /\ selfPersonality = w.selfPersonality
             /\ nodes = w.nodes
             /\ edges = w.edges
             /\ store = w.store
             /\ nextId = w.nextId
    /\ ops = MaxOps - 1
    /\ last = [op |-> "init", raised |-> FALSE, reweighted |-> FALSE]
    /\ InitServer

NextPopulated ==
    \/ ProcessEventFrame
    \/ ProcessEventBatch

SpecPopulated == InitPopulated /\ [][NextPopulated]_vars

\* ------------------------------------------- the functions on their inputs
\* Each action below applies one function of the code, once, to inputs
\* drawn from a bounded set, and records the inputs and the value.
\* The variables of the agent's state.
state_vars ==
    <<personality, shadowed, selfPersonality, nodes, edges, store, nextId, ops>>

\* The words descriptions are made of, and the detected actions.
HeuristicWords ==
    {"finished building", "completed", "important", "milestone", "success",
     "cool", "just", "kind of", "routine"}
HeuristicActions == {{}, {"check"}, {"completed"}, {"check", "achieved"}}

HeuristicImportanceScore ==
    /\ last.op = "init"
    /\ \E d \in SUBSET HeuristicWords, a \in HeuristicActions :
         \E event \in {from_dict(EventData("h", TRUE, "str", d, None, None, a))} :
             last' = [op |-> "heuristic_importance_score", raised |-> FALSE,
                      reweighted |-> FALSE, event |-> event,
                      score |-> heuristic_importance_score(event)]
    /\ UNCHANGED <<state_vars, server_vars>>

\* The node types handed to determine_threshold: those of the table, an
\* absent one and one the table does not know.
ThresholdTypes == DOMAIN THRESHOLDS \cup {None, "surprise"}
\* Graph sizes on both sides of the density constant.
MemoryCounts ==
    {0, MEMORY_DENSITY_THRESHOLD, MEMORY_DENSITY_THRESHOLD + 1,
     2 * MEMORY_DENSITY_THRESHOLD}

DetermineThreshold ==
    /\ last.op = "init"
    /\ \E t \in ThresholdTypes, c \in MemoryCounts, n \in 0..10 :
         \E p \in {[PersonalityVector EXCEPT !["Neuroticism"] = n]} :
             last' = [op |-> "determine_threshold", raised |-> FALSE,
                      reweighted |-> FALSE, event_type |-> t,
                      memory_count |-> c, personality |-> p,
                      threshold |-> determine_threshold(t, c, p)]
    /\ UNCHANGED <<state_vars, server_vars>>

\* Steps 2 to 5 of process_event_frame (lines 1128-1172) on given scores:
\* the weighted base importance (thousandths), the modulation, the
\* threshold and the decision.
Decision(p, heuristic, semantic, llm_importance, event, node_type, memory_count) ==
    Admitted(apply_personality_modulation(
                 p, 20 * heuristic + 3 * semantic + 5 * llm_importance,
                 event, node_type),
             determine_threshold(node_type, memory_count, p))

\* The scores of the three layers: heuristic in tenths, semantic and the
\* collaborator's importance (which no code bounds) in hundredths.
LayerScores == {2, 5, 9} \X {50, 95} \X {-100, 0, 10, 30, 100}

Admission ==
    /\ last.op = "init"
    /\ \E sc \in LayerScores, n \in 0..10, a \in {0, 5, 10},
          t \in {"threat", "trauma"}, c \in {0, MEMORY_DENSITY_THRESHOLD + 1},
          ev \in {EvThreat, EvNoDescription} :
         \E p \in {[PersonalityVector EXCEPT !["Neuroticism"] = n,
                                             !["Agreeableness"] = a]} :
             last' = [op |-> "admission", raised |-> FALSE,
                      reweighted |-> FALSE, scores |-> sc, personality |-> p,
                      node_type |-> t, memory_count |-> c, event |-> from_dict(ev),
                      admitted |-> Decision(p, sc[1], sc[2], sc[3], from_dict(ev),
                                            t, c)]
    /\ UNCHANGED <<state_vars, server_vars>>

\* Utterances by the widest planning-keyword list they hit: "a cup of
\* water" (the gate's list only), "deliver the report" (the gate's and
\* the status fallback's), "bring me the report" (all three), "hello".
PlanningUtterances ==
    {Utterance(FALSE, None, None, FALSE, FALSE, k, FALSE) :
        k \in {"none", "gate", "fallback", "core"}}
\* The ways the planning-need call fails.
PlanFailures == {"nojson", "status", "badjson", "timeout", "error"}

DetectPlanningNeed ==
    /\ last.op = "init"
    /\ \E utt \in PlanningUtterances, reply \in {"yes", "no"} \cup PlanFailures :
         \E t \in {Turn(None, reply, "yes", TRUE, "ok", TRUE)} :
             last' = [op |-> "detect_planning_need", raised |-> FALSE,
                      reweighted |-> FALSE, utterance |-> utt, turn |-> t,
                      needs_planning |-> detect_planning_need(utt, t)]
    /\ UNCHANGED <<state_vars, server_vars>>

NextFn ==
    \/ HeuristicImportanceScore
    \/ DetermineThreshold
    \/ Admission
    \/ DetectPlanningNeed

SpecFn == Init /\ [][NextFn]_vars

\* ----------------------------------------------------------- brain server
\* The request handlers that change the agent.
Handlers ==
    {"set_personality", "interact", "inject_event", "process_event",
     "process_event_batch"}

\* interact declared with `def`: the framework would run it on a worker
\* thread, beside the event loop.
is_coroutine_interact_def(handler) == handler # "interact"

\* Whether the handler is declared `async def`: the framework runs such a
\* handler on the event loop, which runs one task at a time and changes
\* task only where the running one awaits.
is_coroutine(handler) == handler \in Handlers

\* The EgoGraph operation a handler calls (a plain call, nothing awaited
\* inside), on the state w, for one request of each kind.
egograph_operation(handler, w) ==
    CASE handler = "set_personality" -> update_personality(w, "Neuroticism", 15)
      [] handler = "inject_event" -> inject_trauma(w, TRUE)
      [] handler = "interact" ->
            Only({[w |-> r.w, raised |-> r.raised] :
                  r \in {process_interaction(
                            w, "User", UtIntroBob,
                            Turn(None, "yes", "yes", TRUE, "ok", TRUE))}})
      [] handler = "process_event" ->
            Only({[w |-> r.w, raised |-> r.raised] :
                  r \in {process_event_frame(
                            w, EvThreat, Oracle(Llm(100, "threat"), 95, TRUE))}})
      [] handler = "process_event_batch" ->
            Only({[w |-> r.w, raised |-> r.raised] :
                  r \in {process_event_batch(
                            w, <<EvAchievement>>,
                            <<Oracle(Unavailable, 95, TRUE)>>)}})

\* A request arrives: a task for its handler.
Request ==
    /\ Len(requests) < MaxRequests
    /\ \E h \in Handlers :
         requests' = Append(requests, [handler |-> h, pc |-> "ready", i |-> 0,
                                       disconnected |-> << >>])
    /\ UNCHANGED <<state_vars, last, active_connections, endpoint, closed, loop,
                   in_op, completed, removed>>

\* The handler's task is started and calls its EgoGraph operation, which
\* reads the agent's state.  A coroutine starts when the event loop is
\* free and holds it.
OpBegin ==
    /\ \E t \in 1..Len(requests) :
         /\ requests[t].pc = "ready"
         /\ is_coroutine(requests[t].handler) => loop = 0
         /\ requests' = [requests EXCEPT ![t].pc = "in_op"]
         /\ loop' = IF is_coroutine(requests[t].handler) THEN t ELSE loop
         /\ in_op' = (t :> World) @@ in_op
    /\ UNCHANGED <<state_vars, last, active_connections, endpoint, closed,
                   completed, removed>>

\* The operation returns, having written the agent's state; the handler
\* goes on to manager.broadcast.  An operation that raises ends the
\* handler.
OpEnd ==
    /\ \E t \in DOMAIN in_op :
         \E r \in {egograph_operation(requests[t].handler, in_op[t])} :
             /\ BecomesWorld(r.w)
             /\ requests' = [requests EXCEPT
                                ![t].pc = IF r.raised THEN "done" ELSE "broadcast"]
             /\ loop' = IF r.raised /\ loop = t THEN 0 ELSE loop
             /\ in_op' = [x \in DOMAIN in_op \ {t} |-> in_op[x]]
             /\ completed' = Append(completed, requests[t].handler)
             /\ last' = [op |-> requests[t].handler, raised |-> r.raised,
                         reweighted |-> FALSE]
    /\ UNCHANGED <<ops, active_connections, endpoint, closed, removed>>

\* list.remove(x) on a list without repetitions.
Remove(list, x) == SelectSeq(list, LAMBDA y : y # x)
InList(list, x) == \E k \in 1..Len(list) : list[k] = x

\* The second loop of broadcast (lines 42-45): every connection in
\* `disconnected` is removed if it is still in the list.
RECURSIVE RemoveDisconnected(_, _)
RemoveDisconnected(list, disconnected) ==
    IF disconnected = << >> THEN list
    ELSE RemoveDisconnected(Remove(list, Head(disconnected)), Tail(disconnected))

\* ConnectionManager.broadcast, from one await to the next: the for loop
\* takes the connection at its index, if the list still has one there,
\* and awaits send_json on it, which fails on a socket whose client has
\* gone; past the end of the list the failed connections are removed and
\* the handler returns.
BroadcastStep ==
    /\ \E t \in 1..Len(requests) :
         /\ requests[t].pc = "broadcast"
         /\ loop \in {0, t}
         /\ loop' = 0
         /\ IF requests[t].i < Len(active_connections)
            THEN LET connection == active_connections[requests[t].i + 1] IN
                 /\ requests' = [requests EXCEPT
                        ![t].i = @ + 1,
                        ![t].disconnected =
                            IF connection \in closed
                            THEN Append(@, connection) ELSE @]
                 /\ UNCHANGED <<active_connections, removed>>
            ELSE /\ active_connections' =
                        RemoveDisconnected(active_connections,
                                           requests[t].disconnected)
                 /\ removed' =
                        [s \in Sockets |->
                            IF InList(requests[t].disconnected, s)
                               /\ InList(active_connections, s)
                            THEN Append(removed[s], "broadcast")
                            ELSE removed[s]]
                 /\ requests' = [requests EXCEPT ![t].pc = "done"]
    /\ UNCHANGED <<state_vars, last, endpoint, closed, in_op, completed>>

\* websocket_endpoint up to its first send: manager.connect accepts the
\* socket and appends it.
Connect ==
    /\ loop = 0
    /\ \E s \in Sockets :
         /\ endpoint[s] = "new"
         /\ active_connections' = Append(active_connections, s)
         /\ endpoint' = [endpoint EXCEPT ![s] = "greeting"]
    /\ UNCHANGED <<state_vars, last, closed, requests, loop, in_op, completed,
                   removed>>

\* The initial_state message (lines 367-371), sent outside the try block:
\* on a socket whose client has gone the send raises and the endpoint ends
\* there; otherwise it enters the receive loop.
Greet ==
    /\ loop = 0
    /\ \E s \in Sockets :
         /\ endpoint[s] = "greeting"
         /\ endpoint' = [endpoint EXCEPT
                           ![s] = IF s \in closed THEN "crashed" ELSE "receiving"]
    /\ UNCHANGED <<state_vars, last, active_connections, closed, requests, loop,
                   in_op, completed, removed>>

\* The client goes away.
ClientClose ==
    /\ \E s \in Sockets :
         /\ endpoint[s] # "new"
         /\ s \notin closed
         /\ closed' = closed \cup {s}
    /\ UNCHANGED <<state_vars, last, active_connections, endpoint, requests,
                   loop, in_op, completed, removed>>

\* receive_text raises WebSocketDisconnect and the handler calls
\* manager.disconnect: list.remove, which raises ValueError when the
\* socket is not in the list.
Disconnect ==
    /\ loop = 0
    /\ \E s \in Sockets :
         /\ endpoint[s] = "receiving"
         /\ s \in closed
         /\ IF InList(active_connections, s)
            THEN /\ active_connections' = Remove(active_connections, s)
                 /\ removed' = [removed EXCEPT ![s] = Append(@, "disconnect")]
                 /\ endpoint' = [endpoint EXCEPT ![s] = "done"]
            ELSE /\ endpoint' = [endpoint EXCEPT ![s] = "raised"]
                 /\ UNCHANGED <<active_connections, removed>>
    /\ UNCHANGED <<state_vars, last, closed, requests, loop, in_op, completed>>

NextServer ==
    \/ Request
    \/ OpBegin
    \/ OpEnd
    \/ BroadcastStep
    \/ Connect
    \/ Greet
    \/ ClientClose
    \/ Disconnect

SpecServer == Init /\ [][NextServer]_vars

\* ----------------------------------------------------------------- claims
\* The user a user-typed node stands for, case folded.
ScopeOf(id) == Lower(id.name)
UserNodes(scope) ==
    {id \in DOMAIN nodes : nodes[id].node_type = "user" /\ ScopeOf(id) = scope}

\* C1: in every state an operation leaves right after running the edge
\* reweighting, running the reweighting once more under the same
\* personality leaves every edge weight as it is (no compounding).
C1_ReweightIdempotent ==
    last.reweighted => reweight_edges(World) = edges

\* C2: a processed event is committed exactly when its final importance is
\* at or above the threshold: then one new memory node exists, carrying
\* that importance and the analysed node type, and the result reports
\* added_to_graph with its id; otherwise no node is new and the result
\* reports stored_as_episodic.
C2_CommitIffAdmitted ==
    (last.op = "process_event_frame" /\ ~last.raised
        /\ last.result.status = "processed") =>
    LET r == last.result
        new == DOMAIN nodes \ DOMAIN last.nodesBefore
    IN  IF r.importance * 10 >= r.threshold * Scale
        THEN /\ r.added_to_graph /\ r.action = "added_to_graph"
             /\ {id \in new : IsMemoryId(id)} = {r.memory_id}
             /\ nodes[r.memory_id].importance = r.importance
             /\ nodes[r.memory_id].node_type = r.node_type
        ELSE /\ ~r.added_to_graph /\ r.action = "stored_as_episodic"
             /\ r.memory_id = None
             /\ new = {}

\* An event admitted with its importance exactly at the threshold.
C2_Witness ==
    /\ last.op = "process_event_frame" /\ ~last.raised
    /\ last.result.action = "added_to_graph"
    /\ last.result.importance * 10 = last.result.threshold * Scale

\* C3: an event scored below its threshold is reported with its
\* importance, the threshold and the reason, and the graph (nodes and
\* edges) and the store are what they were before the call.
C3_EpisodicLeavesStateAlone ==
    (last.op = "process_event_frame" /\ ~last.raised
        /\ last.result.status = "processed"
        /\ last.result.importance * 10 < last.result.threshold * Scale) =>
    /\ last.result.action = "stored_as_episodic"
    /\ last.result.episodic_reason
    /\ last.result.importance \in 0..Scale
    /\ last.result.threshold \in 1..9
    /\ nodes = last.nodesBefore
    /\ edges = last.edgesBefore
    /\ store = last.storeBefore

\* An episodic event on a graph that already holds memories.
C3_Witness ==
    /\ last.op = "process_event_frame"
    /\ last.result.action = "stored_as_episodic"
    /\ MemoryIds(nodes) # {}
    /\ store # {}

\* An entry of a batch whose processing raises inside process_event_frame.
Malformed(event_data) == ~event_data.isMapping \/ event_data.descKind = "int"

\* C4: a batch of N events returns N result entries, an entry whose
\* processing raises being reported with status error and every other
\* entry with status processed.
C4_BatchYieldsNResults ==
    (last.op = "process_event_batch" /\ last.events # << >>
        /\ \E i \in 1..Len(last.events) : Malformed(last.events[i])) =>
    /\ ~last.raised
    /\ Len(last.results) = Len(last.events)
    /\ \A i \in 1..Len(last.events) :
         last.results[i].status =
            IF Malformed(last.events[i]) THEN "error" ELSE "processed"

\* C5: an event with no description is rejected with an error result and
\* the call leaves the graph as it was.
C5_MissingFieldRejected ==
    (last.op = "process_event_frame" /\ last.event.isMapping
        /\ last.event.descKind = "missing") =>
    /\ last.result.status = "error"
    /\ nodes = last.nodesBefore
    /\ edges = last.edgesBefore

\* C6: every memory node of the graph has a record with its id in the
\* store (node ids being the keys of the graph, no id has two nodes), and
\* an add_memory_node whose store write fails adds no node and no edge.
C6_MemoryNodesBacked ==
    /\ \A id \in MemoryIds(nodes) : \E r \in store : r.id = id
    /\ (last.op = "add_memory_node" /\ ~last.storeOk) =>
          /\ last.raised
          /\ last.memory.id \notin DOMAIN nodes
          /\ \A e \in DOMAIN edges : e[2] # last.memory.id

\* A store write that failed on a graph that holds memories.
C6_Witness ==
    /\ last.op = "add_memory_node" /\ ~last.storeOk
    /\ MemoryIds(nodes) # {}

\* C7: the graph holds at most one node of type user for each user.
C7_OneUserNodePerScope ==
    \A scope \in {"bob", "ian", "user"} : Cardinality(UserNodes(scope)) <= 1

\* C8: a memory node has a SELF edge of type global_memory exactly when
\* its importance is strictly greater than 0.9.
C8_GlobalEdgeIffAbove09 ==
    \A id \in MemoryIds(nodes) :
        (/\ <<SELF, id>> \in DOMAIN edges
         /\ edges[<<SELF, id>>].edge_type = "global_memory")
        <=> nodes[id].importance * 10 > 9 * Scale

\* A memory of importance exactly 0.9 beside one above 0.9.
C8_Witness ==
    /\ \E id \in MemoryIds(nodes) : nodes[id].importance * 10 = 9 * Scale
    /\ \E id \in MemoryIds(nodes) : nodes[id].importance * 10 > 9 * Scale

\* C9: every trait lies in [0, 1] in every state, and a completed update
\* of a trait stores the value clamped to [0, 1].
C9_TraitsClamped ==
    /\ \A t \in Traits : personality[t] \in 0..10
    /\ (last.op = "update_personality" /\ last.trait \in Traits /\ ~last.raised) =>
          personality[last.trait] =
             (IF last.value > 10 THEN 10 ELSE IF last.value < 0 THEN 0
              ELSE last.value)

\* An update with a value outside [0, 1], after an injection.
C9_Witness ==
    /\ last.op = "update_personality" /\ last.trait \in Traits
    /\ last.value \notin 0..10
    /\ MemoryIds(nodes) # {}

\* C10: every personality update returns normally, and one whose name is
\* none of the five traits leaves the five trait values as they were.
C10_UnknownTraitIgnored ==
    last.op = "update_personality" =>
        /\ ~last.raised
        /\ last.trait \notin Traits => personality = last.before

\* C11: while the graph holds a trauma or threat node and Neuroticism is
\* above 0.6, filter_perception rejects every utterance, a friendly one
\* included; a completed inject_trauma leaves such a state (Neuroticism 0.9,
\* Agreeableness 0.1, a threat node); and once Neuroticism is 0.6 or below
\* no utterance is rejected by the override any more.
C11_TraumaOverrideRejects ==
    /\ (trauma_nodes(World) # {} /\ personality["Neuroticism"] > 6) =>
          /\ \A utt \in Utterances : filter_perception(World, utt) = "reject"
          /\ (last.op = "process_interaction" /\ last.perception # None) =>
                last.perception = "reject"
    /\ (last.op = "inject_trauma" /\ ~last.raised) =>
          /\ personality["Neuroticism"] = 9 /\ personality["Agreeableness"] = 1
          /\ trauma_nodes(World) # {}
    /\ personality["Neuroticism"] <= 6 =>
          \A utt \in Utterances : filter_perception(World, utt) # "reject"

\* After a trauma, a friendly wave is rejected.
C11_Witness ==
    /\ last.op = "process_interaction" /\ last.utterance = UtFriendly
    /\ last.perception = "reject"
    /\ trauma_nodes(World) # {}

\* C12: an utterance with a threat keyword is rejected whenever Neuroticism
\* is above 0.8, and accepted whenever Neuroticism is below 0.2 and the
\* graph holds no trauma or threat node, whatever else it contains.
C12_ThreatKeywordDecision ==
    \A utt \in Utterances : utt.threat =>
        /\ personality["Neuroticism"] > 8 =>
              filter_perception(World, utt) = "reject"
        /\ (personality["Neuroticism"] < 2 /\ trauma_nodes(World) = {}) =>
              filter_perception(World, utt) = "accept"

\* C13: a completed turn of process_interaction adds exactly one memory
\* node, whatever the perception, the planning verdict, the decision and
\* the collaborators' answers were; its node type is achievement when a
\* plan came back and memory otherwise.
C13_TurnAddsOneMemory ==
    (last.op = "process_interaction" /\ ~last.raised) =>
        /\ MemoryIds(nodes) \ MemoryIds(last.nodesBefore) = {last.memory.id}
        /\ nodes[last.memory.id].node_type =
              (IF last.plan THEN "achievement" ELSE "memory")
        /\ \E rec \in store : rec.id = last.memory.id

\* A turn for which a plan came back.
C13_Witness ==
    /\ last.op = "process_interaction" /\ ~last.raised
    /\ last.plan
    /\ nodes[last.memory.id].node_type = "achievement"

\* C14: the record of a turn has importance 0.7 when the perception was
\* reject (whether or not the utterance asked for an action), 0.6 when
\* planning was needed on a turn not rejected, and 0.5 otherwise.
C14_TurnImportance ==
    (last.op = "process_interaction" /\ ~last.raised) =>
        nodes[last.memory.id].importance =
            (IF last.perception = "reject" THEN 7
             ELSE IF last.needs_planning THEN 6 ELSE 5) * (Scale \div 10)

\* C15: the planner is called only after a decision with proceed = true,
\* and on a rejected turn the decision, if there is one, refuses, the
\* decision collaborator is not called and no plan is returned.
C15_PlanningOnlyAfterProceed ==
    last.op = "process_interaction" =>
        /\ last.plannerCalled => last.decision = "proceed"
        /\ last.plan => last.plannerCalled
        /\ last.decision # None <=> last.needs_planning
        /\ last.perception = "reject" =>
              /\ last.decision \in {None, "refuse"}
              /\ ~last.decisionCalled /\ ~last.plannerCalled
              /\ ~last.proceed /\ ~last.plan

\* A rejected turn whose utterance asked for an action: a decision is
\* produced and it refuses.
C15_Witness ==
    /\ last.op = "process_interaction"
    /\ last.perception = "reject"
    /\ last.decision = "refuse"

C20_ReservedNameIgnored ==
    last.op = "process_interaction" =>
        \A n \in ReservedNames \ {last.user} :
            n \in {last.utterance.regexName, last.utterance.otherName,
                   last.turn.nameLlm} =>
                /\ ~last.raised => last.memory.user_context # n
                /\ (DOMAIN nodes \ DOMAIN last.nodesBefore)
                       \cap {user_(n), USER_(n)} = {}

\* The fixed vocabulary of node types (llm_analyzer.py, the analysis
\* prompt and valid_types).
NodeTypes ==
    {"memory", "trauma", "joy", "threat", "interaction", "achievement",
     "routine"}

\* C17: every analysis ends with a result after at most LLM_MAX_RETRIES
\* generate requests; with the probe failing it issues no request and
\* returns the keyword fallback; and when every attempt fails (timeout,
\* request error, non-200 status, malformed JSON) or the reply's fields
\* are of the wrong type (an importance that is no number, a node_type that
\* is no string) the result is the keyword fallback.
C17_AnalysisBoundedFallback ==
    (last.op = "process_event_frame" /\ last.analysis.source # None) =>
        /\ last.analysis.requests <= LLM_MAX_RETRIES
        /\ ~last.llm.available =>
              last.analysis.requests = 0 /\ last.analysis.source = "fallback"
        /\ (last.llm.available /\ \A i \in 1..LLM_MAX_RETRIES :
               last.llm.replies[i] \in
                   {"timeout", "request_error", "status", "bad_json"}) =>
              /\ last.analysis.requests = LLM_MAX_RETRIES
              /\ last.analysis.source = "fallback"
        /\ (last.llm.available /\ last.llm.replies[1] = "bad_number") =>
              last.analysis.source = "fallback"
        /\ (last.llm.available /\ last.llm.replies[1] = "ok"
               /\ last.llm.node_type = None) =>
              last.analysis.source = "fallback"

\* C18: a batch that returns has one result per event, results[k] being
\* the result of events[k]; the importance of event k is the one scored on
\* the graph that holds the commits of the admitted events before k and of
\* no event from k on; and the commits were made in the order of the
\* events.
C18_BatchInSubmissionOrder ==
    (last.op = "process_event_batch" /\ ~last.raised) =>
        /\ Len(last.results) = Len(last.events)
        /\ \A k \in 1..Len(last.events) :
              LET later == {last.results[j].memory_id :
                              j \in {i \in k..Len(last.events) :
                                        last.results[i].added_to_graph}}
                  Wk == [World EXCEPT
                           !.nodes = [id \in DOMAIN nodes \ later |-> nodes[id]]]
              IN  /\ last.results[k].event_id = last.events[k].frame_id
                  /\ last.results[k].status = "processed" =>
                        last.results[k].importance =
                           Score(Wk, from_dict(last.events[k]),
                                 last.oracles[k]).final_importance
        /\ \A j, k \in 1..Len(last.events) :
              (j < k /\ last.results[j].added_to_graph
                     /\ last.results[k].added_to_graph) =>
                 last.results[j].memory_id.num < last.results[k].memory_id.num

\* A batch whose second event is admitted on the strength of the first
\* one's commit.
C18_Witness ==
    /\ last.op = "process_event_batch" /\ ~last.raised
    /\ Len(last.events) = 2
    /\ last.events[1] = EvThreat /\ last.events[2] = EvAchievement
    /\ last.results[1].added_to_graph /\ last.results[2].added_to_graph
    /\ \A id \in MemoryIds(nodes) :
          id \in {last.results[1].memory_id, last.results[2].memory_id}

\* C19: the node type of every memory node is one of the fixed vocabulary,
\* whatever node type the reasoning collaborator returned.
C19_NodeTypeInVocabulary ==
    \A id \in MemoryIds(nodes) : nodes[id].node_type \in NodeTypes

\* C22: determine_threshold returns a value in [0.1, 0.9] for every node
\* type and graph size, and for the types threat and trauma its value with
\* Neuroticism > 0.7 is strictly below its value, at the same graph size,
\* with any Neuroticism <= 0.7.
C22_AnxiousThresholdLower ==
    last.op = "determine_threshold" =>
        /\ last.threshold \in 1..9
        /\ last.event_type \in {"threat", "trauma"}
             /\ last.personality["Neuroticism"] > 7
           => \A n \in 0..7 :
                last.threshold <
                    determine_threshold(
                        last.event_type, last.memory_count,
                        [last.personality EXCEPT !["Neuroticism"] = n])

\* A threat on a dense graph, scored by an anxious agent: 0.3 + 0.1 - 0.2.
C22_Witness ==
    /\ last.op = "determine_threshold"
    /\ last.event_type = "threat"
    /\ last.memory_count > MEMORY_DENSITY_THRESHOLD
    /\ last.personality["Neuroticism"] = 8
    /\ last.threshold = 2

\* C25: the heuristic score is the reference computation on the counts h
\* and l of high and low keywords found (0.5; min(0.9, 0.5 + 0.1 h) when
\* h > 0; max(0.2, score - 0.1 l) when l > 0; max(score, 0.7) with a
\* completion action), so it lies in [0.2, 0.9], is at least 0.7 with a
\* completion action and at most 0.4 for low keywords only and no
\* completion action.
C25_HeuristicReference ==
    last.op = "heuristic_importance_score" =>
        LET h == Cardinality({kw \in high_importance_keywords :
                                 Contains(last.event.description, kw)})
            l == Cardinality({kw \in low_importance_keywords :
                                 Contains(last.event.description, kw)})
            completion == last.event.detected_actions \cap completion_actions # {}
            s0 == 5
            s1 == IF h > 0 THEN Min(9, 5 + h) ELSE s0
            s2 == IF l > 0 THEN Max(2, s1 - l) ELSE s1
            s3 == IF completion THEN Max(s2, 7) ELSE s2
        IN  /\ last.score = s3
            /\ last.score \in 2..9
            /\ completion => last.score >= 7
            /\ h = 0 /\ l > 0 /\ ~completion => last.score <= 4

\* Low keywords outweigh the high ones and a completion action lifts the
\* score to the floor 0.7.
C25_Witness ==
    /\ last.op = "heuristic_importance_score"
    /\ last.event.description = {"completed", "cool", "just", "routine"}
    /\ last.event.detected_actions = {"completed"}
    /\ last.score = 7

\* C28: a threat or trauma event admitted at Neuroticism n is admitted at
\* every Neuroticism n' >= n, the layer scores, the other traits, the
\* event and the graph size being the same.
C28_AdmissionMonotone ==
    last.op = "admission" /\ last.admitted =>
        \A n \in last.personality["Neuroticism"]..10 :
            Decision([last.personality EXCEPT !["Neuroticism"] = n],
                     last.scores[1], last.scores[2], last.scores[3],
                     last.event, last.node_type, last.memory_count)

\* An event admitted at Neuroticism 0.6 that a calmer agent turns down.
C28_Witness ==
    /\ last.op = "admission"
    /\ last.admitted
    /\ last.personality["Neuroticism"] = 6
    /\ ~Decision([last.personality EXCEPT !["Neuroticism"] = 0],
                 last.scores[1], last.scores[2], last.scores[3],
                 last.event, last.node_type, last.memory_count)

\* C29: when the utterance passes the keyword gate and the planning-need
\* call fails, the fallback's needs_planning is the gate's verdict (TRUE),
\* whatever the failure.
C29_FallbackEqualsGate ==
    last.op = "detect_planning_need"
        /\ last.utterance.planKw # "none"
        /\ last.turn.planLlm \in PlanFailures
    => last.needs_planning = TRUE

\* C23: after every personality-changing operation that completed
\* (update_personality, inject_trauma, inject_kindness, reset_to_neutral)
\* the personality kept on the SELF node is the current personality.
C23_SelfNodeCarriesPersonality ==
    last.op \in {"update_personality", "inject_trauma", "inject_kindness",
                 "reset_to_neutral"} /\ ~last.raised
    => selfPersonality = personality

\* An update that changed a trait, after an injection had changed others.
C23_Witness ==
    /\ last.op = "update_personality"
    /\ ~last.raised
    /\ personality # last.before
    /\ personality["Agreeableness"] = 1
    /\ selfPersonality = personality

\* The user scopes a retrieval is asked for.
Scopes == {None, "User", "Bob", "Ian"}

\* C21: retrieve_relevant_memories returns at most top_k records, with or
\* without a user scope and whatever the two partitions hold: at most 5
\* for an event and at most 10 for the retrieval of a turn.
C21_AtMostTopK ==
    /\ \A ctx \in Scopes, top_k \in 1..10 :
          retrieve_relevant_memories(store, ctx, top_k) <= top_k
    /\ last.op = "process_event_frame" /\ last.result.status = "processed"
       => last.relevant_memories_count <= 5
    /\ last.op = "process_interaction" /\ last.perception # None
       => last.retrieved <= 10

\* C26: the threshold of a processed event carries the habituation
\* adjustment exactly when more than 100 memories are committed to the
\* graph, the SELF node and the user nodes not being counted: it is the
\* threshold determine_threshold gives for the number of memory nodes.
C26_HabituationCountsMemories ==
    last.op = "process_event_frame" /\ last.result.status = "processed" =>
        last.result.threshold =
            determine_threshold(last.result.node_type,
                                Cardinality(MemoryIds(last.nodesBefore)),
                                personality)

\* The nodes with importance > 0.7.
Important(ns) == {id \in DOMAIN ns : ns[id].importance * 10 > 7 * Scale}

\* C27: the candidates of an event's semantic score are the five nodes of
\* highest importance among those above 0.7 (no node left out outranks a
\* candidate); a memory committed by an earlier event of the batch whose
\* importance is above that of every other node is a candidate for every
\* later event; and with no node above 0.7 the score is 0.5.
C27_TopFiveByImportance ==
    /\ last.op = "process_event_frame" /\ last.result.status = "processed" =>
         LET W0 == [World EXCEPT !.nodes = last.nodesBefore]
         IN  /\ \A c \in important_memories(W0) :
                   \A id \in Important(W0.nodes) \ important_memories(W0) :
                       W0.nodes[c].importance >= W0.nodes[id].importance
             /\ Important(W0.nodes) = {} =>
                   \A sem \in 50..95 : semantic_importance_score(W0, sem) = 50
    /\ last.op = "process_event_batch" /\ ~last.raised =>
         \A j, k \in 1..Len(last.events) :
            LET later == {last.results[i].memory_id :
                            i \in {i \in k..Len(last.events) :
                                      last.results[i].added_to_graph}}
                Wk == [World EXCEPT
                         !.nodes = [id \in DOMAIN nodes \ later |-> nodes[id]]]
            IN  (/\ j < k
                 /\ last.results[j].added_to_graph
                 /\ last.results[k].status = "processed"
                 /\ \A id \in Important(Wk.nodes) \ {last.results[j].memory_id} :
                       Wk.nodes[id].importance < last.results[j].importance)
                => last.results[j].memory_id \in important_memories(Wk)

\* The state the operations of the handlers hs leave when run one after
\* the other on w.
RECURSIVE Replay(_, _)
Replay(hs, w) ==
    IF hs = << >> THEN w
    ELSE Only({Replay(Tail(hs), r.w) : r \in {egograph_operation(Head(hs), w)}})

\* C24: whatever the interleaving of the handlers, no EgoGraph operation
\* starts while another one is under way, and whenever none is under way
\* the graph, the personality and the store are those the completed
\* requests produce when run one after the other in some order (the order
\* in which their operations returned).
C24_OperationsSerialized ==
    /\ Cardinality(DOMAIN in_op) <= 1
    /\ in_op = EmptyFn => World = Replay(completed, EgoGraph)

\* Two requests interleaved: the second one's operation ran while the
\* first one was suspended inside its broadcast.
C24_Witness ==
    /\ Len(requests) = 2
    /\ requests[1].handler = "set_personality"
    /\ requests[1].pc = "broadcast" /\ requests[1].i = 1
    /\ requests[2].handler = "process_event"
    /\ requests[2].pc = "broadcast"
    /\ completed = <<"set_personality", "process_event">>

\* C30: no socket is removed from active_connections more than once, no
\* disconnect raises (in particular not the one that follows a broadcast
\* having dropped the socket), and a socket that was dropped is not in
\* active_connections.
C30_RemovedOnceNoRaise ==
    \A s \in Sockets :
        /\ Len(removed[s]) <= 1
        /\ endpoint[s] # "raised"
        /\ removed[s] # << >> => ~InList(active_connections, s)

====
